---- MODULE Spec2Model ----
(***************************************************************************)
(* Model of nexushub/krunclient/main.c: the one-shot pipeline that checks  *)
(* its arguments, formats the port mapping, filters the host environment   *)
(* into envp, and drives libkrun (create_ctx, set_vm_config, set_root,     *)
(* set_port_map, set_exec, start_enter).                                   *)
(*                                                                         *)
(* C strings are sequences of one-character strings.  A pointer is a       *)
(* sequence of length 0 (NULL) or 1 (the string pointed to).  A            *)
(* NULL-terminated array is a sequence of pointers whose last element is   *)
(* NULL.  libkrun is an external library: each of its calls is recorded    *)
(* in `calls` with the arguments it received and a result drawn from the   *)
(* results the library can give.                                           *)
(***************************************************************************)
EXTENDS Integers, Sequences, FiniteSets, TLC

(***************************************************************************)
(* Bounds of the model.                                                    *)
(***************************************************************************)
\* Largest number of entries of the host environment (before its NULL).
MaxEnv == 2
\* Largest argc (program name included).
MaxArgc == 4
\* Length of the longest port text tried (beyond the 32-byte buffer).
MaxPortLen == 33

(***************************************************************************)
(* C string and pointer vocabulary.                                        *)
(***************************************************************************)
NULL == << >>

Ptr(s) == << s >>

Deref(p) == p[1]

\* The byte that ends a C string.
NUL == "\\0"

\* Character k (1-based) of the C string s, its terminator included.
CharAt(s, k) == IF k <= Len(s) THEN s[k] ELSE NUL

Min(a, b) == IF a <= b THEN a ELSE b

\* strncmp(a, b, n): 0 when the first n characters agree (the comparison
\* stops at a terminator), non-zero otherwise.
Strncmp(a, b, n) ==
    LET m == Min(n, Min(Len(a) + 1, Len(b) + 1))
    IN  IF \A k \in 1..m : CharAt(a, k) = CharAt(b, k) THEN 0 ELSE 1

\* strdup(s): a pointer to a copy of s, or NULL when allocation fails.
Strdup(s, ok) == IF ok THEN Ptr(s) ELSE NULL

\* The entries a consumer of a NULL-terminated array sees: those before
\* the first NULL.
RECURSIVE UntilNull(_)
UntilNull(arr) ==
    IF arr = << >> \/ Head(arr) = NULL THEN << >>
    ELSE << Deref(Head(arr)) >> \o UntilNull(Tail(arr))

(***************************************************************************)
(* Literals and constants of main.c.                                       *)
(***************************************************************************)
\* argc of a well-formed invocation: program name, root path, local port.
ValidArgc == 3
\* The status main returns on a usage error.
UsageStatus == 1
\* The status main returns after krun_start_enter has returned.
FinalStatus == 0
\* sizeof(port_mapping).
PortMappingSize == 32
\* The third argument of the two strncmp calls.
HostCmpLen == 5
SecretCmpLen == 16
\* The arguments of krun_set_vm_config.
NumVcpus == 1
RamMib == 512

\* "HOST=" and "INTERNAL_SECRET=": the initial envp entries and the
\* strncmp patterns.
HostLit == << "H", "O", "S", "T", "=" >>
SecretLit == << "I", "N", "T", "E", "R", "N", "A", "L", "_",
                "S", "E", "C", "R", "E", "T", "=" >>
\* The ":80" that the format "%s:80" appends.
GuestSuffix == << ":", "8", "0" >>
\* "/bin/app"
ExecPath == << "/", "b", "i", "n", "/", "a", "p", "p" >>

\* The messages main prints, as << format >> or << format, argument >>.
UsageMsg(prog) == << "Usage: %s <root_path> <local_port>\n", prog >>
HostMsg(value) == << "Setting HOST environment variable to %s\n", value >>
SecretMsg == << "Setting INTERNAL_SECRET environment variable\n" >>
SecretValueMsg(value) ==
    << "Setting INTERNAL_SECRET environment variable to %s\n", value >>
InitMsg == << "Initializing VM context...\n" >>
RootMsg(path) == << "Setting VM root to %s\n", path >>
PortMsg(mapping) == << "Mapping TCP ports %s\n", mapping >>
ExecMsg == << "Executing /bin/app in VM...\n" >>

\* snprintf with a limit one too small, and sprintf (no limit).
SnprintfOneShort(size, port) ==
    LET full == port \o GuestSuffix
    IN  SubSeq(full, 1, Min(Len(full), size - 2))

SprintfUnbounded(size, port) == port \o GuestSuffix

\* snprintf(buf, size, "%s:80", port): the text left in buf, at most
\* size - 1 characters of the formatted text.
Snprintf(size, port) ==
    LET full == port \o GuestSuffix
    IN  SubSeq(full, 1, Min(Len(full), size - 1))

\* &s[n]: the C string that starts n characters into s.
From(s, n) == SubSeq(s, n + 1, Len(s))

\* The tests of the two if statements of the loop.
IsHostEntryShort(e) == Strncmp(e, HostLit, HostCmpLen - 1) = 0

IsHostEntry(e) == Strncmp(e, HostLit, HostCmpLen) = 0

IsSecretEntry(e) == Strncmp(e, SecretLit, SecretCmpLen) = 0

\* The line each printf of the loop prints for the entry e.
HostLine(e) == HostMsg(From(e, HostCmpLen))

SecretLineEcho(e) == SecretValueMsg(From(e, SecretCmpLen))

SecretLine(e) == SecretMsg

\* The loop body with each slot assigned only while it still holds its
\* initial literal (the first entry of a name wins).
LoopBodyFirstWins(e, envpIn, okH, okS) ==
    LET afterHost ==
            IF IsHostEntry(e)
            THEN [out  |-> << HostLine(e) >>,
                  envp |-> IF envpIn[1] = Ptr(HostLit)
                           THEN [envpIn EXCEPT ![1] = Strdup(e, okH)]
                           ELSE envpIn]
            ELSE [out |-> << >>, envp |-> envpIn]
    IN  IF IsSecretEntry(e)
        THEN [out  |-> afterHost.out \o << SecretLine(e) >>,
              envp |-> IF envpIn[2] = Ptr(SecretLit)
                       THEN [afterHost.envp EXCEPT ![2] = Strdup(e, okS)]
                       ELSE afterHost.envp]
        ELSE afterHost

\* One pass of the loop body over the entry e: the envp and the lines
\* printed afterwards.  okH and okS say whether each strdup succeeds.
LoopBody(e, envpIn, okH, okS) ==
    LET afterHost ==
            IF IsHostEntry(e)
            THEN [out  |-> << HostLine(e) >>,
                  envp |-> [envpIn EXCEPT ![1] = Strdup(e, okH)]]
            ELSE [out |-> << >>, envp |-> envpIn]
    IN  IF IsSecretEntry(e)
        THEN [out  |-> afterHost.out \o << SecretLine(e) >>,
              envp |-> [afterHost.envp EXCEPT ![2] = Strdup(e, okS)]]
        ELSE afterHost

(***************************************************************************)
(* Inputs: argument vectors and host environments.                         *)
(***************************************************************************)
Digits == << "1", "2", "3", "4", "5", "6", "7", "8", "9", "0" >>

\* A port text of n digits, every position recognisable.
PortText(n) == [k \in 1..n |-> Digits[((k - 1) % 10) + 1]]

Port8080 == << "8", "0", "8", "0" >>

\* Port texts: one short, one that fills the buffer exactly with ":80"
\* (28 characters), and one longer than the buffer.
Ports ==
    { Port8080 } \cup { PortText(n) : n \in { PortMappingSize - 4, MaxPortLen } }

Roots == { << "/", "r" >> }

ProgName == << "k" >>

ExtraArg == << "x" >>

\* Host environment entries: the two forwarded names with two values
\* each, a name that starts with HOST and a name that ends with it.
EnvPool ==
    { HostLit \o << "a" >>, HostLit \o << "b" >>,
      SecretLit \o << "s" >>, SecretLit \o << "t" >>,
      << "H", "O", "S", "T", "N", "A", "M", "E", "=", "n" >>,
      << "M", "Y", "_", "H", "O", "S", "T", "=", "m" >> }

SeqsUpTo(S, n) == UNION { [1..k -> S] : k \in 0..n }

\* environ: the entries, then NULL.
HostEnvirons ==
    { [k \in 1..(Len(es) + 1) |->
          IF k <= Len(es) THEN Ptr(es[k]) ELSE NULL] : es \in SeqsUpTo(EnvPool, MaxEnv) }

\* The name of an entry: the text before its first "=".
EqPos(e) ==
    IF \E k \in 1..Len(e) : e[k] = "="
    THEN CHOOSE k \in 1..Len(e) : e[k] = "=" /\ \A j \in 1..(k - 1) : e[j] # "="
    ELSE Len(e) + 1

Key(e) == SubSeq(e, 1, EqPos(e) - 1)

Value(e) == SubSeq(e, EqPos(e) + 1, Len(e))

HostName == << "H", "O", "S", "T" >>

SecretName == SubSeq(SecretLit, 1, Len(SecretLit) - 1)

\* Two host environments that differ at most in the values of
\* INTERNAL_SECRET.
SameExceptSecret(e1, e2) ==
    /\ Len(e1) = Len(e2)
    /\ \A k \in 1..Len(e1) :
          \/ e1[k] = e2[k]
          \/ /\ e1[k] # NULL /\ e2[k] # NULL
             /\ Key(Deref(e1[k])) = SecretName
             /\ Key(Deref(e2[k])) = SecretName

(***************************************************************************)
(* State.                                                                  *)
(***************************************************************************)
VARIABLES
    pc,            \* the statement main is at
    argc,          \* main's argc
    argv,          \* main's argv, argv[1] the program name
    environ,       \* the host environment, NULL-terminated
    port_mapping,  \* the 32-byte buffer, as the C string it holds
    port_map,      \* { port_mapping, NULL }
    envp,          \* the three-slot array handed to krun_set_exec
    i,             \* the loop index (1-based)
    ctx_id,        \* the result of krun_create_ctx
    calls,         \* the libkrun calls made so far, in order
    stdout,        \* the lines printed to standard output
    stderr,        \* the lines printed to the error stream
    exit,          \* << >> while running, << status >> once main returned
    environ2,      \* a second run's host environment (see below)
    stdout2,       \* that run's standard output
    stderr2        \* that run's error stream

vars == << pc, argc, argv, environ, port_mapping, port_map, envp, i, ctx_id,
           calls, stdout, stderr, exit, environ2, stdout2, stderr2 >>

\* The second run executes the same statements on the same arguments, with
\* the same strdup and libkrun results, on a host environment that differs
\* at most in the values of INTERNAL_SECRET; only what it prints is kept.

\* Results of the libkrun calls: 0 or a context id on success, a negative
\* errno on failure.
CreateCtxResults == { 0, -12 }

ConfigResults == { 0, -22 }

StartErrors == { -22 }

\* A libkrun call: the function, the context it got, its other arguments,
\* whether it returned, and its result if it did.
Call(fn, ctx, args, returned, ret) ==
    [fn |-> fn, ctx |-> ctx, args |-> args, returned |-> returned, ret |-> ret]

Init ==
    /\ pc = "check_args"
    /\ argc \in 1..MaxArgc
    /\ \E root \in Roots, port \in Ports :
          argv = [k \in 1..argc |->
                     CASE k = 1 -> ProgName
                       [] k = 2 -> root
                       [] k = 3 -> port
                       [] OTHER -> ExtraArg]
    /\ environ \in HostEnvirons
    /\ environ2 \in { e \in HostEnvirons : SameExceptSecret(environ, e) }
    /\ port_mapping = << >>
    /\ port_map = << >>
    /\ envp = << >>
    /\ i = 1
    /\ ctx_id = 0
    /\ calls = << >>
    /\ stdout = << >>
    /\ stderr = << >>
    /\ exit = << >>
    /\ stdout2 = << >>
    /\ stderr2 = << >>

\* The test argc != 3.
BadArityTooFew(n) == n < ValidArgc

BadArity(n) == n # ValidArgc

\* if (argc != 3) { fprintf(stderr, ...); return 1; }
CheckArgs ==
    /\ pc = "check_args"
    /\ IF BadArity(argc)
       THEN /\ stderr' = Append(stderr, UsageMsg(argv[1]))
            /\ stderr2' = Append(stderr2, UsageMsg(argv[1]))
            /\ exit' = << UsageStatus >>
            /\ pc' = "exited"
       ELSE /\ pc' = "port_mapping"
            /\ UNCHANGED << stderr, stderr2, exit >>
    /\ UNCHANGED << argc, argv, environ, port_mapping, port_map, envp, i,
                    ctx_id, calls, stdout, environ2, stdout2 >>

\* snprintf(port_mapping, sizeof(port_mapping), "%s:80", argv[2]);
\* port_map[] = {port_mapping, NULL};
BuildPortMap ==
    /\ pc = "port_mapping"
    /\ port_mapping' = Snprintf(PortMappingSize, argv[3])
    /\ port_map' = << Ptr(port_mapping'), NULL >>
    /\ pc' = "envp"
    /\ UNCHANGED << argc, argv, environ, envp, i, ctx_id, calls, stdout,
                    stderr, exit, environ2, stdout2, stderr2 >>

\* char *envp[] = { "HOST=", "INTERNAL_SECRET=", 0 };  int i = 0;
InitEnvp ==
    /\ pc = "envp"
    /\ envp' = << Ptr(HostLit), Ptr(SecretLit), NULL >>
    /\ i' = 1
    /\ pc' = "loop"
    /\ UNCHANGED << argc, argv, environ, port_mapping, port_map, ctx_id,
                    calls, stdout, stderr, exit, environ2, stdout2, stderr2 >>

\* The loop with ++i made only for an entry that matched.
FilterEnvStepNoAdvance ==
    /\ pc = "loop"
    /\ environ[i] # NULL
    /\ \E okH \in BOOLEAN, okS \in BOOLEAN :
          LET r  == LoopBody(Deref(environ[i]), envp, okH, okS)
              r2 == LoopBody(Deref(environ2[i]), envp, okH, okS)
          IN  /\ envp' = r.envp
              /\ stdout' = stdout \o r.out
              /\ stdout2' = stdout2 \o r2.out
              /\ i' = IF r.out # << >> THEN i + 1 ELSE i
    /\ UNCHANGED << pc, argc, argv, environ, port_mapping, port_map, ctx_id,
                    calls, stderr, exit, environ2, stderr2 >>

\* One iteration of for (i = 0; environ[i] != NULL; ++i) { ... }
FilterEnvStep ==
    /\ pc = "loop"
    /\ environ[i] # NULL
    /\ \E okH \in BOOLEAN, okS \in BOOLEAN :
          LET r  == LoopBody(Deref(environ[i]), envp, okH, okS)
              r2 == LoopBody(Deref(environ2[i]), envp, okH, okS)
          IN  /\ envp' = r.envp
              /\ stdout' = stdout \o r.out
              /\ stdout2' = stdout2 \o r2.out
    /\ i' = i + 1
    /\ UNCHANGED << pc, argc, argv, environ, port_mapping, port_map, ctx_id,
                    calls, stderr, exit, environ2, stderr2 >>

\* The loop ends at the NULL that terminates environ.
FilterEnvDone ==
    /\ pc = "loop"
    /\ environ[i] = NULL
    /\ pc' = "create_ctx"
    /\ UNCHANGED << argc, argv, environ, port_mapping, port_map, envp, i,
                    ctx_id, calls, stdout, stderr, exit, environ2, stdout2,
                    stderr2 >>

\* int ctx_id = krun_create_ctx();
CreateCtx ==
    /\ pc = "create_ctx"
    /\ \E r \in CreateCtxResults :
          /\ ctx_id' = r
          /\ calls' = Append(calls, Call("krun_create_ctx", 0, << >>, TRUE, r))
    /\ pc' = "set_vm_config"
    /\ UNCHANGED << argc, argv, environ, port_mapping, port_map, envp, i,
                    stdout, stderr, exit, environ2, stdout2, stderr2 >>

\* printf("Initializing VM context...\n"); krun_set_vm_config(ctx_id, 1, 512);
SetVmConfig ==
    /\ pc = "set_vm_config"
    /\ stdout' = Append(stdout, InitMsg)
    /\ stdout2' = Append(stdout2, InitMsg)
    /\ \E r \in ConfigResults :
          calls' = Append(calls, Call("krun_set_vm_config", ctx_id,
                                      << NumVcpus, RamMib >>, TRUE, r))
    /\ pc' = "set_root"
    /\ UNCHANGED << argc, argv, environ, port_mapping, port_map, envp, i,
                    ctx_id, stderr, exit, environ2, stderr2 >>

\* SetRoot with the port-map statements left out.
SetRootSkipsPortMap ==
    /\ pc = "set_root"
    /\ stdout' = Append(stdout, RootMsg(argv[2]))
    /\ stdout2' = Append(stdout2, RootMsg(argv[2]))
    /\ \E r \in ConfigResults :
          calls' = Append(calls, Call("krun_set_root", ctx_id,
                                      << argv[2] >>, TRUE, r))
    /\ pc' = "set_exec"
    /\ UNCHANGED << argc, argv, environ, port_mapping, port_map, envp, i,
                    ctx_id, stderr, exit, environ2, stderr2 >>

\* SetRoot with argv[2] in place of argv[1] in the call.
SetRootWrongArg ==
    /\ pc = "set_root"
    /\ stdout' = Append(stdout, RootMsg(argv[2]))
    /\ stdout2' = Append(stdout2, RootMsg(argv[2]))
    /\ \E r \in ConfigResults :
          calls' = Append(calls, Call("krun_set_root", ctx_id,
                                      << argv[3] >>, TRUE, r))
    /\ pc' = "set_port_map"
    /\ UNCHANGED << argc, argv, environ, port_mapping, port_map, envp, i,
                    ctx_id, stderr, exit, environ2, stderr2 >>

\* printf("Setting VM root to %s\n", argv[1]); krun_set_root(ctx_id, argv[1]);
SetRoot ==
    /\ pc = "set_root"
    /\ stdout' = Append(stdout, RootMsg(argv[2]))
    /\ stdout2' = Append(stdout2, RootMsg(argv[2]))
    /\ \E r \in ConfigResults :
          calls' = Append(calls, Call("krun_set_root", ctx_id,
                                      << argv[2] >>, TRUE, r))
    /\ pc' = "set_port_map"
    /\ UNCHANGED << argc, argv, environ, port_mapping, port_map, envp, i,
                    ctx_id, stderr, exit, environ2, stderr2 >>

\* printf("Mapping TCP ports %s\n", port_mapping);
\* krun_set_port_map(ctx_id, port_map);
SetPortMap ==
    /\ pc = "set_port_map"
    /\ stdout' = Append(stdout, PortMsg(port_mapping))
    /\ stdout2' = Append(stdout2, PortMsg(port_mapping))
    /\ \E r \in ConfigResults :
          calls' = Append(calls, Call("krun_set_port_map", ctx_id,
                                      << UntilNull(port_map) >>, TRUE, r))
    /\ pc' = "set_exec"
    /\ UNCHANGED << argc, argv, environ, port_mapping, port_map, envp, i,
                    ctx_id, stderr, exit, environ2, stderr2 >>

\* printf("Executing /bin/app in VM...\n");
\* krun_set_exec(ctx_id, "/bin/app", 0, &envp[0]);
SetExec ==
    /\ pc = "set_exec"
    /\ stdout' = Append(stdout, ExecMsg)
    /\ stdout2' = Append(stdout2, ExecMsg)
    /\ \E r \in ConfigResults :
          calls' = Append(calls, Call("krun_set_exec", ctx_id,
                                      << ExecPath, << >>, UntilNull(envp) >>,
                                      TRUE, r))
    /\ pc' = "start_enter"
    /\ UNCHANGED << argc, argv, environ, port_mapping, port_map, envp, i,
                    ctx_id, stderr, exit, environ2, stderr2 >>

\* krun_start_enter(ctx_id): enters the VM and never returns, or returns a
\* negative errno.
StartEnter ==
    /\ pc = "start_enter"
    /\ \/ /\ calls' = Append(calls, Call("krun_start_enter", ctx_id, << >>,
                                         FALSE, 0))
          /\ pc' = "in_vm"
       \/ \E r \in StartErrors :
             /\ calls' = Append(calls, Call("krun_start_enter", ctx_id,
                                            << >>, TRUE, r))
             /\ pc' = "return"
    /\ UNCHANGED << argc, argv, environ, port_mapping, port_map, envp, i,
                    ctx_id, stdout, stderr, exit, environ2, stdout2, stderr2 >>

\* return 0;
ReturnFromMain ==
    /\ pc = "return"
    /\ exit' = << FinalStatus >>
    /\ pc' = "exited"
    /\ UNCHANGED << argc, argv, environ, port_mapping, port_map, envp, i,
                    ctx_id, calls, stdout, stderr, environ2, stdout2,
                    stderr2 >>

Next ==
    \/ CheckArgs
    \/ BuildPortMap
    \/ InitEnvp
    \/ FilterEnvStep
    \/ FilterEnvDone
    \/ CreateCtx
    \/ SetVmConfig
    \/ SetRoot
    \/ SetPortMap
    \/ SetExec
    \/ StartEnter
    \/ ReturnFromMain

Spec == Init /\ [][Next]_vars

\* main is the only thread and no statement before krun_start_enter
\* blocks: a run that can take a step takes one.
FairSpec == Spec /\ WF_vars(Next)

(***************************************************************************)
(* Vocabulary of the properties.                                           *)
(***************************************************************************)
Range(f) == { f[k] : k \in DOMAIN f }

CallOrder ==
    << "krun_create_ctx", "krun_set_vm_config", "krun_set_root",
       "krun_set_port_map", "krun_set_exec", "krun_start_enter" >>

ConfigFns ==
    { "krun_set_vm_config", "krun_set_root", "krun_set_port_map",
      "krun_set_exec" }

Failed(c) == c.returned /\ c.ret < 0

\* The calls of fn made so far.
CallsOf(fn) == { calls[k] : k \in { j \in 1..Len(calls) : calls[j].fn = fn } }

\* The environment a krun_set_exec call received.
EnvOf(c) == c.args[3]

\* The port map a krun_set_port_map call received.
PortMapOf(c) == c.args[1]

\* The host's entries, and whether and how it defines a name (the last
\* entry of that name, as the environment's semantics has it).
HostEntries == UntilNull(environ)

Defines(name) == \E k \in 1..Len(HostEntries) : Key(HostEntries[k]) = name

Defined(name) ==
    HostEntries[CHOOSE k \in 1..Len(HostEntries) :
                    /\ Key(HostEntries[k]) = name
                    /\ \A j \in (k + 1)..Len(HostEntries) :
                          Key(HostEntries[j]) # name]

AllowedNames == { HostName, SecretName }

\* The text after the first ":" of a port-map entry (empty if none).
GuestSide(s) ==
    IF \E k \in 1..Len(s) : s[k] = ":"
    THEN From(s, CHOOSE k \in 1..Len(s) :
                     s[k] = ":" /\ \A j \in 1..(k - 1) : s[j] # ":")
    ELSE << >>

Terminated == pc \in { "exited", "in_vm" }

(***************************************************************************)
(* C1.  Once a configuration call (set_vm_config, set_root, set_port_map,  *)
(* set_exec) has reported an error, no further libkrun call is made, the   *)
(* VM is not entered and main does not return 0.                           *)
(* The code ignores every result: this is violated.                        *)
(***************************************************************************)
C1_ConfigErrorAborts ==
    \A k \in 1..Len(calls) :
        (calls[k].fn \in ConfigFns /\ Failed(calls[k]))
            => /\ Len(calls) = k
               /\ exit # << 0 >>

(***************************************************************************)
(* C2.  With argc other than 3 (a number of positional arguments other     *)
(* than 2) main makes no libkrun call, never goes past the argument check, *)
(* and exits with status 1.                                                *)
(***************************************************************************)
C2_UsageError ==
    argc # 3 =>
        /\ calls = << >>
        /\ pc \in { "check_args", "exited" }
        /\ pc = "exited" => exit = << 1 >>

\* A run with one positional argument has exited after the usage message.
C2_Witness ==
    /\ argc = 2
    /\ pc = "exited"
    /\ exit = << 1 >>
    /\ stderr = << UsageMsg(ProgName) >>

(***************************************************************************)
(* C3.  Every entry of the environment krun_set_exec receives is named     *)
(* exactly HOST or INTERNAL_SECRET, and is either one of the two initial   *)
(* literals or an entry of the host environment; no name and no value of   *)
(* a host entry of another name (HOSTNAME, MY_HOST: their values are       *)
(* distinct from those of the forwarded names) appears in it.              *)
(***************************************************************************)
C3_OnlyAllowListed ==
    \A c \in CallsOf("krun_set_exec") :
        \A j \in 1..Len(EnvOf(c)) :
            LET e == EnvOf(c)[j]
            IN  /\ Key(e) \in AllowedNames
                /\ e \in { HostLit, SecretLit } \cup Range(HostEntries)
                /\ \A h \in Range(HostEntries) :
                      Key(h) \notin AllowedNames
                          => Key(e) # Key(h) /\ Value(e) # Value(h)

\* krun_set_exec was called for a host that sets HOSTNAME and HOST, and
\* the HOST entry was forwarded.
C3_Witness ==
    /\ \E h \in Range(HostEntries) : Key(h) = HostName \o << "N", "A", "M", "E" >>
    /\ \E c \in CallsOf("krun_set_exec") :
          \E j \in 1..Len(EnvOf(c)) : EnvOf(c)[j] = HostLit \o << "a" >>

(***************************************************************************)
(* C4.  The environment krun_set_exec receives has an entry named HOST     *)
(* only if the host defines HOST, and one named INTERNAL_SECRET only if    *)
(* the host defines INTERNAL_SECRET.                                       *)
(* envp starts as { "HOST=", "INTERNAL_SECRET=" }: this is violated.       *)
(***************************************************************************)
C4_AbsentOmitted ==
    \A c \in CallsOf("krun_set_exec") :
        \A j \in 1..Len(EnvOf(c)) :
            \A name \in AllowedNames :
                Key(EnvOf(c)[j]) = name => Defines(name)

(***************************************************************************)
(* C5.  If krun_create_ctx fails, no configuration call and no start is    *)
(* made with the failed handle, and main does not return 0.                *)
(* The code never tests ctx_id: this is violated.                          *)
(***************************************************************************)
C5_CreateFailureAborts ==
    \A k \in 1..Len(calls) :
        (calls[k].fn = "krun_create_ctx" /\ Failed(calls[k]))
            => /\ Len(calls) = k
               /\ exit # << 0 >>

(***************************************************************************)
(* C6.  In no run where krun_start_enter returned an error does the        *)
(* process exit with status 0.                                             *)
(* main returns 0 after krun_start_enter: this is violated.                *)
(***************************************************************************)
C6_StartErrorNonZero ==
    (\E c \in CallsOf("krun_start_enter") : Failed(c)) => exit # << 0 >>

(***************************************************************************)
(* C7.  The libkrun calls made so far are an initial part of               *)
(* create_ctx, set_vm_config, set_root, set_port_map, set_exec,            *)
(* start_enter (so each is made at most once, in that order, and none      *)
(* after start_enter); and once the first call is made the arity was       *)
(* valid, the port mapping is formatted and the loop over environ has      *)
(* reached its end.                                                        *)
(***************************************************************************)
C7_CallOrder ==
    /\ Len(calls) <= Len(CallOrder)
    /\ \A k \in 1..Len(calls) : calls[k].fn = CallOrder[k]
    /\ calls # << >> =>
          /\ argc = 3
          /\ pc \notin { "check_args", "port_mapping", "envp", "loop" }
          /\ port_map = << Ptr(port_mapping), NULL >>
          /\ port_mapping # << >>
          /\ Len(envp) = 3
          /\ i = Len(environ) /\ environ[i] = NULL
    /\ pc \in { "in_vm", "return" } => Len(calls) = Len(CallOrder)

\* All six calls were made, after a loop of two iterations.
C7_Witness ==
    /\ Len(calls) = 6
    /\ calls[6].fn = "krun_start_enter"
    /\ i = 3

(***************************************************************************)
(* C8.  The port map krun_set_port_map receives has exactly one entry, and *)
(* the text after its colon is 80, whatever the port text.                 *)
(* snprintf cuts the text at 31 characters: this is violated.              *)
(***************************************************************************)
C8_GuestSide80 ==
    \A c \in CallsOf("krun_set_port_map") :
        /\ Len(PortMapOf(c)) = 1
        /\ GuestSide(PortMapOf(c)[1]) = << "8", "0" >>

(***************************************************************************)
(* C9.  If the host defines HOST=v, the environment krun_set_exec receives *)
(* contains HOST=v verbatim; likewise INTERNAL_SECRET=s; and if it defines *)
(* both, that environment has exactly the two entries HOST=v and           *)
(* INTERNAL_SECRET=s.                                                      *)
(* A failed strdup puts NULL in the slot: this is violated.                *)
(***************************************************************************)
C9_ForwardedVerbatim ==
    \A c \in CallsOf("krun_set_exec") :
        /\ \A name \in AllowedNames :
              Defines(name) => Defined(name) \in Range(EnvOf(c))
        /\ (Defines(HostName) /\ Defines(SecretName))
              => /\ Len(EnvOf(c)) = 2
                 /\ Range(EnvOf(c)) = { Defined(HostName), Defined(SecretName) }

(***************************************************************************)
(* C10.  Two runs that differ only in the values of INTERNAL_SECRET print  *)
(* the same lines on standard output and on the error stream.              *)
(***************************************************************************)
C10_OutputIndependentOfSecret ==
    /\ stdout = stdout2
    /\ stderr = stderr2

\* Two runs with different secrets have both finished, having printed the
\* line about INTERNAL_SECRET.
C10_Witness ==
    /\ Terminated
    /\ environ # environ2
    /\ SecretMsg \in Range(stdout)
    /\ SecretLit \o << "s" >> \in Range(HostEntries)

(***************************************************************************)
(* C11.  For a port text of at most 28 characters, the port map            *)
(* krun_set_port_map receives is the single entry made of the port text,   *)
(* unchanged, followed by ":80" (8080 gives 8080:80).                      *)
(***************************************************************************)
C11_PortMappingExact ==
    \A c \in CallsOf("krun_set_port_map") :
        Len(argv[3]) <= 28 => PortMapOf(c) = << argv[3] \o << ":", "8", "0" >> >>

\* krun_set_port_map received the 31-character entry of a 28-character
\* port text.
C11_Witness ==
    \E c \in CallsOf("krun_set_port_map") :
        /\ Len(argv[3]) = 28
        /\ Len(PortMapOf(c)[1]) = 31
        /\ GuestSide(PortMapOf(c)[1]) = << "8", "0" >>

(***************************************************************************)
(* C12.  krun_set_vm_config receives (1, 512), krun_set_root the root-path *)
(* argument unchanged, krun_set_exec the path /bin/app and an empty        *)
(* argument list, and every configuration call and krun_start_enter the    *)
(* result of the one krun_create_ctx call, whatever the host environment   *)
(* and the port argument.                                                  *)
(***************************************************************************)
C12_FixedConfiguration ==
    /\ Cardinality(CallsOf("krun_create_ctx")) <= 1
    /\ \A k \in 2..Len(calls) : calls[k].ctx = calls[1].ret
    /\ \A c \in CallsOf("krun_set_vm_config") : c.args = << 1, 512 >>
    /\ \A c \in CallsOf("krun_set_root") :
          c.args = << argv[2] >> /\ argv[2] \in Roots
    /\ \A c \in CallsOf("krun_set_exec") :
          /\ c.args[1] = << "/", "b", "i", "n", "/", "a", "p", "p" >>
          /\ c.args[2] = << >>

\* All six calls were made, for a long port text and a host that sets
\* both variables.
C12_Witness ==
    /\ Len(calls) = 6
    /\ Len(argv[3]) > 28
    /\ Defines(HostName) /\ Defines(SecretName)

(***************************************************************************)
(* C13.  For a port text longer than 28 characters, the string left in     *)
(* port_mapping is never longer than 31 characters and is the first 31     *)
(* characters of the port text followed by ":80"; the input is not         *)
(* rejected: the run goes on and krun_set_port_map receives that string.   *)
(***************************************************************************)
C13_TruncatedAt31 ==
    (argc = 3 /\ Len(argv[3]) > 28) =>
        LET full == argv[3] \o << ":", "8", "0" >>
        IN  /\ Len(port_mapping) <= 31
            /\ pc \notin { "check_args", "port_mapping" }
                  => port_mapping = [k \in 1..31 |-> full[k]]
            /\ \A c \in CallsOf("krun_set_port_map") :
                  PortMapOf(c) = << [k \in 1..31 |-> full[k]] >>
            /\ exit # << >> => Len(calls) = 6

\* krun_set_port_map received a 31-character entry for a port text longer
\* than the buffer.
C13_Witness ==
    /\ argc = 3
    /\ Len(argv[3]) > 31
    /\ \E c \in CallsOf("krun_set_port_map") :
          /\ Len(PortMapOf(c)[1]) = 31
          /\ PortMapOf(c)[1] = SubSeq(argv[3], 1, 31)

(***************************************************************************)
(* C14.  When the host lists HOST (or INTERNAL_SECRET) more than once,     *)
(* an entry of that name in the environment krun_set_exec receives is the  *)
(* one that occurs last in the host environment; an earlier duplicate      *)
(* never reaches krun_set_exec.                                            *)
(***************************************************************************)
C14_LastWins ==
    \A c \in CallsOf("krun_set_exec") :
        \A name \in AllowedNames :
            Defines(name) =>
                \A j \in 1..Len(EnvOf(c)) :
                    Key(EnvOf(c)[j]) = name => EnvOf(c)[j] = Defined(name)

\* The host lists HOST=a and then HOST=b, and krun_set_exec received
\* HOST=b.
C14_Witness ==
    /\ HostEntries = << HostLit \o << "a" >>, HostLit \o << "b" >> >>
    /\ \E c \in CallsOf("krun_set_exec") :
          EnvOf(c) = << HostLit \o << "b" >>, SecretLit >>

(***************************************************************************)
(* C15.  The environment krun_set_exec receives always has exactly two     *)
(* entries, the HOST entry first and the INTERNAL_SECRET entry second,     *)
(* whatever the order of the host environment; a variable the host does    *)
(* not define appears as "HOST=" or "INTERNAL_SECRET=".                    *)
(* A failed strdup puts NULL in the slot and ends the list there: this is  *)
(* violated.                                                               *)
(***************************************************************************)
C15_TwoEntriesFixedOrder ==
    \A c \in CallsOf("krun_set_exec") :
        /\ Len(EnvOf(c)) = 2
        /\ Key(EnvOf(c)[1]) = HostName
        /\ Key(EnvOf(c)[2]) = SecretName
        /\ ~Defines(HostName) => EnvOf(c)[1] = HostLit
        /\ ~Defines(SecretName) => EnvOf(c)[2] = SecretLit

(***************************************************************************)
(* C16.  No slot of envp before its terminator becomes NULL, even when a   *)
(* strdup fails: the environment krun_set_exec receives still has an       *)
(* INTERNAL_SECRET entry when the copy of the HOST entry failed.           *)
(* envp[0] = strdup(...) stores NULL unchecked: this is violated.          *)
(***************************************************************************)
C16_NoSlotBecomesTerminator ==
    /\ Len(envp) = 3 => envp[1] # NULL /\ envp[2] # NULL
    /\ \A c \in CallsOf("krun_set_exec") :
          \E j \in 1..Len(EnvOf(c)) : Key(EnvOf(c)[j]) = SecretName

(***************************************************************************)
(* C17.  Every run reaches a terminal state (exited after the usage        *)
(* message, exited after krun_start_enter returned, or inside the VM), and *)
(* every step moves to a later statement or to the next entry of environ:  *)
(* no stage is retried or entered again.                                   *)
(***************************************************************************)
StageNo(p) ==
    CASE p = "check_args"    -> 1
      [] p = "port_mapping"  -> 2
      [] p = "envp"          -> 3
      [] p = "loop"          -> 4
      [] p = "create_ctx"    -> 5
      [] p = "set_vm_config" -> 6
      [] p = "set_root"      -> 7
      [] p = "set_port_map"  -> 8
      [] p = "set_exec"      -> 9
      [] p = "start_enter"   -> 10
      [] p = "return"        -> 11
      [] p = "in_vm"         -> 12
      [] p = "exited"        -> 12

C17_Terminates ==
    /\ <>Terminated
    /\ [][\/ StageNo(pc') > StageNo(pc)
          \/ /\ pc = "loop" /\ pc' = "loop"
             /\ i' = i + 1 /\ i' <= Len(environ)
             /\ calls' = calls]_vars

\* A run that went twice round the loop and through all six calls has
\* exited.
C17_Witness ==
    /\ pc = "exited"
    /\ Len(calls) = 6
    /\ i = 3

====
